---- MODULE Spec2Model ----
\* State-machine model of coolclis: asset resolution (find_appropriate_asset),
\* archive unpacking (extract_archive), executable discovery
\* (find_executable_recursively, both the copy in main.rs and the one in
\* unpack.rs) and the install_tool orchestration.
\*
\* Strings are sequences of one-character strings, so that contains,
\* starts_with, ends_with, to_lowercase and len are computed as Rust does.
EXTENDS Integers, Sequences, FiniteSets, TLC

VARIABLES
    pc,           \* position of the modelled call
    target_os,    \* cfg!(target_os): "windows" | "macos" | "linux" | "other"
    target_arch,  \* cfg!(target_arch): "x86_64" | "aarch64" | "x86" | "other"
    assets,       \* release.assets: sequence of asset names
    tool_name,    \* tool_name argument
    resolved,     \* result of find_appropriate_asset
    dir_name,     \* file name of the extraction directory handed to the locator
    tree,         \* the extraction directory: directory id -> listing (read_dir order)
    located,      \* result of find_executable_recursively
    mode_set,     \* paths whose mode the locator has set to 0o755
    filename,     \* asset.name, the filename argument of extract_archive
    data,         \* the downloaded payload: its real format and what it unpacks to
    extracted,    \* result of extract_archive
    temp_dir,     \* <install_dir>/<tool>_temp: "absent" | "stale" | "fresh"
    temp_created, \* install_tool has run create_dir_all(&temp_dir)
    installed,    \* <install_dir>/<tool> has been written
    install_result, \* what install_tool returned
    dl_method,    \* the Downloader method running: "get_json" | "download_file"
    max_attempts, \* Downloader.max_attempts
    retry_delay_secs, \* Downloader.retry_delay_secs
    attempts,     \* the local counter of the retry loop
    requests,     \* HTTP requests sent so far by the call
    waited,       \* seconds spent in tokio::time::sleep by the call
    dl_log,       \* what happened, in order: each request's outcome and each sleep
    dl_result     \* what the method returned

resolver_vars == <<target_os, target_arch, assets, tool_name, resolved>>
locator_vars == <<dir_name, tree, located, mode_set>>
extract_vars == <<filename, data, extracted>>
install_vars == <<temp_dir, temp_created, installed, install_result>>

download_vars == <<dl_method, max_attempts, retry_delay_secs, attempts, requests,
                   waited, dl_log, dl_result>>

vars == <<pc, resolver_vars, locator_vars, extract_vars, install_vars, download_vars>>

-----------------------------------------------------------------------------
\* Bounds

MaxAssets == 2
MaxEntries == 3
MaxAttempts == 3

-----------------------------------------------------------------------------
\* str primitives

LowerOf ==
    [c \in {"A","B","C","D","E","F","G","H","I","J","K","L","M",
            "N","O","P","Q","R","S","T","U","V","W","X","Y","Z"} |->
        CASE c = "A" -> "a" [] c = "B" -> "b" [] c = "C" -> "c" [] c = "D" -> "d"
          [] c = "E" -> "e" [] c = "F" -> "f" [] c = "G" -> "g" [] c = "H" -> "h"
          [] c = "I" -> "i" [] c = "J" -> "j" [] c = "K" -> "k" [] c = "L" -> "l"
          [] c = "M" -> "m" [] c = "N" -> "n" [] c = "O" -> "o" [] c = "P" -> "p"
          [] c = "Q" -> "q" [] c = "R" -> "r" [] c = "S" -> "s" [] c = "T" -> "t"
          [] c = "U" -> "u" [] c = "V" -> "v" [] c = "W" -> "w" [] c = "X" -> "x"
          [] c = "Y" -> "y" [] c = "Z" -> "z"]

to_lowercase(s) ==
    [i \in 1..Len(s) |-> IF s[i] \in DOMAIN LowerOf THEN LowerOf[s[i]] ELSE s[i]]

contains(s, p) ==
    \E i \in 0..(Len(s) - Len(p)) : \A j \in 1..Len(p) : s[i + j] = p[j]

starts_with(s, p) ==
    Len(p) <= Len(s) /\ \A j \in 1..Len(p) : s[j] = p[j]

ends_with(s, e) ==
    Len(e) <= Len(s) /\ \A j \in 1..Len(e) : s[Len(s) - Len(e) + j] = e[j]

-----------------------------------------------------------------------------
\* String literals

s_dash == <<"-">>
s_under == <<"_">>
s_empty == <<>>
s_windows == <<"w","i","n","d","o","w","s">>
s_darwin == <<"d","a","r","w","i","n">>
s_linux == <<"l","i","n","u","x">>
s_unknown == <<"u","n","k","n","o","w","n">>
s_macos == <<"m","a","c","o","s">>
s_mac == <<"m","a","c">>
s_osx == <<"o","s","x">>
s_x86_64 == <<"x","8","6","_","6","4">>
s_amd64 == <<"a","m","d","6","4">>
s_x64 == <<"x","6","4">>
s_arm64 == <<"a","r","m","6","4">>
s_aarch64 == <<"a","a","r","c","h","6","4">>
s_x86 == <<"x","8","6">>
s_exe == <<".","e","x","e">>
s_zip == <<".","z","i","p">>
s_tar_gz == <<".","t","a","r",".","g","z">>
s_tgz == <<".","t","g","z">>
s_tool == <<"t","o","o","l">>

-----------------------------------------------------------------------------
\* Platform

get_platform_info(tos, tarch) ==
    << IF tos = "windows" THEN s_windows
       ELSE IF tos = "macos" THEN s_darwin
       ELSE IF tos = "linux" THEN s_linux
       ELSE s_unknown,
       IF tarch = "x86_64" THEN s_x86_64
       ELSE IF tarch = "aarch64" THEN s_arm64
       ELSE IF tarch = "x86" THEN s_x86
       ELSE s_unknown >>

os_variations(os) ==
    IF os = s_darwin THEN <<s_darwin, s_macos, s_mac, s_osx>> ELSE <<os>>

arch_variations(arch) ==
    IF arch = s_x86_64 THEN <<s_x86_64, s_amd64, s_x64>>
    ELSE IF arch = s_arm64 THEN <<s_arm64, s_aarch64>>
    ELSE <<arch>>

\* the inner loop over arch_variations for one os_var
RECURSIVE arch_patterns(_, _, _)
arch_patterns(os_var, archs, j) ==
    IF j > Len(archs) THEN <<>>
    ELSE << os_var \o s_dash \o archs[j],
            os_var \o s_under \o archs[j],
            os_var \o archs[j] >> \o arch_patterns(os_var, archs, j + 1)

\* the outer loop over os_variations, pushing the OS-only pattern last
RECURSIVE os_patterns(_, _, _)
os_patterns(oss, archs, i) ==
    IF i > Len(oss) THEN <<>>
    ELSE arch_patterns(oss[i], archs, 1) \o <<oss[i]>> \o os_patterns(oss, archs, i + 1)

search_patterns(os, arch) ==
    os_patterns(os_variations(os), arch_variations(arch), 1)

extensions(os) ==
    IF os = s_windows THEN <<s_exe, s_zip, s_tar_gz, s_tgz>>
    ELSE <<s_empty, s_tar_gz, s_tgz, s_zip>>

-----------------------------------------------------------------------------
\* Asset resolver

\* pass1 without the tool-name containment test
pass1_hit_no_tool(name, tool_lower, pattern, ext) ==
    contains(name, pattern) /\ ends_with(name, ext)

\* the condition of the first triple loop, on the lowercased asset name and
\* the lowercased tool name
pass1_hit(name, tool_lower, pattern, ext) ==
    contains(name, tool_lower) /\ contains(name, pattern) /\ ends_with(name, ext)

\* the condition of the second triple loop, on the lowercased asset name
pass2_hit(name, pattern, ext) ==
    contains(name, pattern) /\ ends_with(name, ext)

\* the condition the innermost loop body tests (first or second triple loop)
loop_hit(name, tool_lower, pattern, ext, with_tool) ==
    IF with_tool THEN pass1_hit(name, tool_lower, pattern, ext)
    ELSE pass2_hit(name, pattern, ext)

\* for asset in &release.assets: index of the first asset that hits, 0 if none
RECURSIVE asset_loop(_, _, _, _, _, _)
asset_loop(names, tool_lower, pattern, ext, with_tool, a) ==
    IF a > Len(names) THEN 0
    ELSE IF loop_hit(names[a], tool_lower, pattern, ext, with_tool) THEN a
    ELSE asset_loop(names, tool_lower, pattern, ext, with_tool, a + 1)

\* for ext in &extensions
RECURSIVE ext_loop(_, _, _, _, _, _)
ext_loop(names, tool_lower, pattern, exts, with_tool, e) ==
    IF e > Len(exts) THEN 0
    ELSE LET hit == asset_loop(names, tool_lower, pattern, exts[e], with_tool, 1)
         IN IF hit # 0 THEN hit
            ELSE ext_loop(names, tool_lower, pattern, exts, with_tool, e + 1)

\* the loops nested the other way round: assets outermost
RECURSIVE triple_loop_assets_outer(_, _, _, _, _, _)
triple_loop_assets_outer(names, tool_lower, pats, exts, with_tool, a) ==
    IF a > Len(names) THEN 0
    ELSE IF \E p \in 1..Len(pats), e \in 1..Len(exts) :
               loop_hit(names[a], tool_lower, pats[p], exts[e], with_tool)
         THEN a
    ELSE triple_loop_assets_outer(names, tool_lower, pats, exts, with_tool, a + 1)

\* for pattern in &search_patterns
RECURSIVE triple_loop(_, _, _, _, _, _)
triple_loop(names, tool_lower, pats, exts, with_tool, p) ==
    IF p > Len(pats) THEN 0
    ELSE LET hit == ext_loop(names, tool_lower, pats[p], exts, with_tool, 1)
         IN IF hit # 0 THEN hit
            ELSE triple_loop(names, tool_lower, pats, exts, with_tool, p + 1)

\* asset.name.to_lowercase() of every asset (the loop body recomputes it on
\* every iteration; it is pure)
lowered(as) == [k \in 1..Len(as) |-> to_lowercase(as[k])]

\* the message built from the last synonym instead of the canonical token
error_message_synonym(os, arch) ==
    LET ov == os_variations(os)
        av == arch_variations(arch)
    IN ov[Len(ov)] \o s_dash \o av[Len(av)]

\* anyhow!("No suitable asset found for your platform ({}-{})", os, arch)
error_message(os, arch) ==
    os \o s_dash \o arch

find_appropriate_asset(as, tool, tos, tarch) ==
    LET info == get_platform_info(tos, tarch)
        os == info[1]
        arch == info[2]
        pats == search_patterns(os, arch)
        exts == extensions(os)
        names == lowered(as)
        tool_lower == to_lowercase(tool)
        first == triple_loop(names, tool_lower, pats, exts, TRUE, 1)
        second == triple_loop(names, tool_lower, pats, exts, FALSE, 1)
    IN IF first # 0 THEN [ok |-> TRUE, idx |-> first, pass |-> 1, err |-> s_empty]
       ELSE IF second # 0 THEN [ok |-> TRUE, idx |-> second, pass |-> 2, err |-> s_empty]
       ELSE [ok |-> FALSE, idx |-> 0, pass |-> 0, err |-> error_message(os, arch)]

-----------------------------------------------------------------------------
\* Filesystem under the extraction directory
\*
\* tree[d] is the listing of directory d in read_dir order; an entry is a
\* regular file or a subdirectory.  A path is <<directory id, file name>>.

s_temp == <<"_","t","e","m","p">>
s_bin == <<"b","i","n">>
s_dot == <<".">>
s_LICENSE == <<"L","I","C","E","N","S","E">>
s_README == <<"R","E","A","D","M","E">>
s_md == <<".","m","d">>
s_txt == <<".","t","x","t">>

File(name) == [kind |-> "file", name |-> name, id |-> "none"]
Dir(name, d) == [kind |-> "dir", name |-> name, id |-> d]

NoPath == <<"none", s_empty>>

\* bin_dir.exists() && bin_dir.is_dir()
bin_dir_exists(t) ==
    \E i \in 1..Len(t["root"]) : t["root"][i].kind = "dir" /\ t["root"][i].name = s_bin

\* the directory id dir.join("bin") names
bin_dir(t) ==
    (CHOOSE en \in { t["root"][i] : i \in 1..Len(t["root"]) } :
        en.kind = "dir" /\ en.name = s_bin).id

\* dir.file_name()...strip_suffix("_temp").unwrap_or("")
strip_temp_suffix(name) ==
    IF ends_with(name, s_temp) THEN SubSeq(name, 1, Len(name) - Len(s_temp))
    ELSE s_empty

\* make_executable / fs::set_permissions(path, 0o755): the set of paths whose
\* mode was set
make_executable(path) == { path }

\* the ? on set_permissions dropped: the path is returned though the mode
\* could not be set
Found_ignoring_error(path, step, io_ok) ==
    [status |-> "some", path |-> path, step |-> step,
     chmod |-> IF io_ok THEN make_executable(path) ELSE {}]

Found(path, step, io_ok) ==
    IF io_ok THEN [status |-> "some", path |-> path, step |-> step,
                   chmod |-> make_executable(path)]
    ELSE [status |-> "err", path |-> NoPath, step |-> step, chmod |-> {}]

NotFound == [status |-> "none", path |-> NoPath, step |-> "none", chmod |-> {}]

\* first loop over read_dir(bin_dir): position of the first regular file
\* whose name equals or starts with `expected`, 0 if none
RECURSIVE named_bin_loop(_, _, _)
named_bin_loop(listing, expected, i) ==
    IF i > Len(listing) THEN 0
    ELSE IF /\ listing[i].kind = "file"
            /\ (listing[i].name = expected \/ starts_with(listing[i].name, expected))
         THEN i
    ELSE named_bin_loop(listing, expected, i + 1)

\* second loop over read_dir(bin_dir): position of the first regular file
RECURSIVE bin_fallback_loop(_, _)
bin_fallback_loop(listing, i) ==
    IF i > Len(listing) THEN 0
    ELSE IF listing[i].kind = "file" THEN i
    ELSE bin_fallback_loop(listing, i + 1)

\* possible_bin.exists() && possible_bin.is_file() for dir.join(name)
possible_bin_is_file(t, name) ==
    \E i \in 1..Len(t["root"]) : t["root"][i].kind = "file" /\ t["root"][i].name = name

\* the name filter without the LICENSE test
is_candidate_no_license(file_name) ==
    /\ ~ starts_with(file_name, s_dot)
    /\ ~ starts_with(file_name, s_README)
    /\ ~ contains(file_name, s_md)
    /\ ~ contains(file_name, s_txt)

\* the name filter of search_directory
is_candidate(file_name) ==
    /\ ~ starts_with(file_name, s_dot)
    /\ ~ starts_with(file_name, s_LICENSE)
    /\ ~ starts_with(file_name, s_README)
    /\ ~ contains(file_name, s_md)
    /\ ~ contains(file_name, s_txt)

\* search_directory: the candidates pushed while walking directory d from
\* entry i on, in push order
RECURSIVE search_directory(_, _, _)
search_directory(t, d, i) ==
    IF i > Len(t[d]) THEN <<>>
    ELSE LET en == t[d][i]
             here == IF en.kind = "file"
                     THEN IF is_candidate(en.name) THEN << <<d, en.name>> >> ELSE <<>>
                     ELSE IF ~ starts_with(en.name, s_dot)
                          THEN search_directory(t, en.id, 1)
                          ELSE <<>>
         IN here \o search_directory(t, d, i + 1)

\* the comparator with the length comparison the other way round
compare_candidates_longer_first(a, b) ==
    LET a_has_ext == contains(a[2], s_dot)
        b_has_ext == contains(b[2], s_dot)
    IN IF a_has_ext /\ ~ b_has_ext THEN "Greater"
       ELSE IF ~ a_has_ext /\ b_has_ext THEN "Less"
       ELSE IF Len(a[2]) > Len(b[2]) THEN "Less"
       ELSE IF Len(a[2]) < Len(b[2]) THEN "Greater"
       ELSE "Equal"

\* the comparator of candidates.sort_by
compare_candidates(a, b) ==
    LET a_has_ext == contains(a[2], s_dot)
        b_has_ext == contains(b[2], s_dot)
    IN IF a_has_ext /\ ~ b_has_ext THEN "Greater"
       ELSE IF ~ a_has_ext /\ b_has_ext THEN "Less"
       ELSE IF Len(a[2]) < Len(b[2]) THEN "Less"
       ELSE IF Len(a[2]) > Len(b[2]) THEN "Greater"
       ELSE "Equal"

\* stable insertion of x into the sorted sequence
RECURSIVE insert_sorted(_, _, _)
insert_sorted(sorted, x, i) ==
    IF i > Len(sorted) THEN Append(sorted, x)
    ELSE IF compare_candidates(x, sorted[i]) = "Less"
         THEN SubSeq(sorted, 1, i - 1) \o <<x>> \o SubSeq(sorted, i, Len(sorted))
    ELSE insert_sorted(sorted, x, i + 1)

\* slice::sort_by (stable)
RECURSIVE sort_by(_, _)
sort_by(cands, n) ==
    IF n = 0 THEN <<>>
    ELSE insert_sorted(sort_by(cands, n - 1), cands[n], 1)

\* candidates.iter().find(|c| file_name == exe_name): position, 0 if none
RECURSIVE find_exact(_, _, _)
find_exact(cands, exe_name, i) ==
    IF i > Len(cands) THEN 0
    ELSE IF cands[i][2] = exe_name THEN i
    ELSE find_exact(cands, exe_name, i + 1)

\* the bin/ block shared by both copies: named match, then first file
bin_steps(t, expected, io_ok) ==
    LET b == bin_dir(t)
        named == named_bin_loop(t[b], expected, 1)
        any == bin_fallback_loop(t[b], 1)
    IN IF named # 0 THEN Found(<<b, t[b][named].name>>, "named_bin", io_ok)
       ELSE IF any # 0 THEN Found(<<b, t[b][any].name>>, "bin_fallback", io_ok)
       ELSE NotFound

\* sort the candidates and take the first
ranking_fallback(cands, io_ok) ==
    LET sorted == sort_by(cands, Len(cands))
    IN IF Len(sorted) > 0 THEN Found(sorted[1], "ranking", io_ok) ELSE NotFound

\* the cascade with the directory-name match tried before bin/
unpack_find_dir_name_first(dname, t, io_ok) ==
    LET exe_name == strip_temp_suffix(dname)
        in_bin == IF bin_dir_exists(t) THEN bin_steps(t, exe_name, io_ok) ELSE NotFound
        candidates == search_directory(t, "root", 1)
        exact == find_exact(candidates, exe_name, 1)
    IN IF possible_bin_is_file(t, exe_name)
       THEN Found(<<"root", exe_name>>, "dir_name", io_ok)
       ELSE IF in_bin.step # "none" THEN in_bin
       ELSE IF exact # 0 THEN Found(candidates[exact], "exact", io_ok)
       ELSE ranking_fallback(candidates, io_ok)

\* unpack.rs: find_executable_recursively
unpack_find_executable_recursively(dname, t, io_ok) ==
    LET exe_name == strip_temp_suffix(dname)
        in_bin == IF bin_dir_exists(t) THEN bin_steps(t, exe_name, io_ok) ELSE NotFound
        candidates == search_directory(t, "root", 1)
        exact == find_exact(candidates, exe_name, 1)
    IN IF in_bin.step # "none" THEN in_bin
       ELSE IF possible_bin_is_file(t, exe_name)
            THEN Found(<<"root", exe_name>>, "dir_name", io_ok)
       ELSE IF exact # 0 THEN Found(candidates[exact], "exact", io_ok)
       ELSE ranking_fallback(candidates, io_ok)

\* main.rs: find_executable_recursively
main_find_executable_recursively(dname, t, io_ok) ==
    LET in_bin == IF bin_dir_exists(t) THEN bin_steps(t, dname, io_ok) ELSE NotFound
        candidates == search_directory(t, "root", 1)
    IN IF in_bin.step # "none" THEN in_bin
       ELSE IF possible_bin_is_file(t, dname)
            THEN Found(<<"root", dname>>, "dir_name", io_ok)
       ELSE ranking_fallback(candidates, io_ok)

-----------------------------------------------------------------------------
\* Archive unpacker
\*
\* A payload is [format, content]: format is what the bytes really are
\* ("targz", "zip" or "raw"), content the tree a matching decoder unpacks.

\* archive.unpack(dest_dir) / archive.extract(dest_dir): the entries of the
\* archive are added to the listings of the destination
unpack_into(t, content) ==
    [d \in DOMAIN t |->
        t[d] \o SelectSeq(content[d], LAMBDA en : \A i \in 1..Len(t[d]) : t[d][i] # en)]

Extracted(status, path, decoders, t, chmod) ==
    [status |-> status, path |-> path, decoders |-> decoders, tree |-> t, chmod |-> chmod]

\* one archive branch: decode with `decoder`, unpack, then locate
archive_branch(main_copy, decoder, fmt, payload, t, dname, io_ok) ==
    IF payload.format # fmt
    THEN Extracted("err", NoPath, {decoder}, t, {})
    ELSE LET t2 == unpack_into(t, payload.content)
             r == IF main_copy THEN main_find_executable_recursively(dname, t2, io_ok)
                  ELSE unpack_find_executable_recursively(dname, t2, io_ok)
         IN Extracted(r.status, r.path, {decoder}, t2, r.chmod)

\* the dispatch made on the payload instead of the file name
extract_archive_by_content(main_copy, payload, fname, t, dname, io_ok) ==
    IF payload.format = "targz"
    THEN archive_branch(main_copy, "gzip_tar", "targz", payload, t, dname, io_ok)
    ELSE IF payload.format = "zip"
    THEN archive_branch(main_copy, "zip", "zip", payload, t, dname, io_ok)
    ELSE Extracted("none", NoPath, {}, t, {})

\* extract_archive(data, filename, dest_dir), in main.rs (main_copy) and in
\* unpack.rs
extract_archive(main_copy, payload, fname, t, dname, io_ok) ==
    IF ends_with(fname, s_tar_gz) \/ ends_with(fname, s_tgz)
    THEN archive_branch(main_copy, "gzip_tar", "targz", payload, t, dname, io_ok)
    ELSE IF ends_with(fname, s_zip)
    THEN archive_branch(main_copy, "zip", "zip", payload, t, dname, io_ok)
    ELSE Extracted("none", NoPath, {}, t, {})

\* the test install_tool makes before it calls extract_archive
is_archive_name(fname) ==
    ends_with(fname, s_tar_gz) \/ ends_with(fname, s_tgz) \/ ends_with(fname, s_zip)

-----------------------------------------------------------------------------
\* Inputs of the resolver

s_other == <<"o","t","h","e","r">>
s_Tool == <<"T","o","o","l">>
s_deb == <<".","d","e","b">>

AssetNames ==
    { s_tool \o s_dash \o s_linux \o s_dash \o s_x86_64 \o s_tar_gz,
      s_tool \o s_dash \o s_linux \o s_dash \o s_amd64 \o s_tar_gz,
      s_tool \o s_dash \o s_windows \o s_dash \o s_x86_64 \o s_exe,
      s_tool \o s_dash \o s_darwin \o s_dash \o s_x86_64,
      s_tool \o s_dash \o s_macos \o s_dash \o s_arm64,
      s_other \o s_dash \o s_linux \o s_dash \o s_x86_64 \o s_tar_gz,
      s_Tool \o s_under \o <<"L","i","n","u","x">> \o s_under \o s_aarch64 \o <<".","Z","I","P">>,
      s_tool \o s_dash \o s_linux \o s_dash \o s_amd64 \o s_deb }

ToolNames == { s_tool, <<"O">> \o SubSeq(s_other, 2, 5) }

TargetOs == {"windows", "macos", "linux", "other"}
TargetArch == {"x86_64", "aarch64", "x86", "other"}

\* sequences of at most n distinct elements of S (names are unique in a
\* release, and in a directory)
RECURSIVE SeqsUpTo(_, _)
SeqsUpTo(S, n) ==
    IF n = 0 THEN { <<>> }
    ELSE LET shorter == SeqsUpTo(S, n - 1)
         IN shorter \cup
            UNION { { Append(q, x) : x \in { y \in S : \A k \in 1..Len(q) : q[k] # y } } :
                    q \in shorter }

-----------------------------------------------------------------------------
\* Inputs of the locator: what an archive may unpack into the directory

f_tool_v2 == s_tool \o <<"-","v","2">>
f_abc == <<"a","b","c">>
f_abcdef == <<"a","b","c","d","e","f">>
f_mytool == <<"m","y">> \o s_tool
f_a_sh == <<"a",".","s","h">>
f_README_md == s_README \o s_md
f_notes_txt == <<"n","o","t","e","s">> \o s_txt
f_dot_env == <<".","e","n","v">>
d_sub == s_tool \o <<"-","v","1",".","2",".","3","-">> \o s_linux

d_hidden == <<".","g","i","t">>

SubDirs == {"bin", "sub", "hid"}

DirEntry(d) ==
    IF d = "bin" THEN Dir(s_bin, d)
    ELSE IF d = "sub" THEN Dir(d_sub, d)
    ELSE Dir(d_hidden, d)

FileNames(d) ==
    IF d = "root" THEN { s_tool, f_tool_v2, f_abc, f_abcdef, f_mytool, f_a_sh,
                         f_README_md, s_LICENSE, f_notes_txt, s_tool \o s_temp }
    ELSE IF d = "bin" THEN { s_tool, f_tool_v2, f_abc, s_tool \o s_temp }
    ELSE IF d = "sub" THEN { s_tool, f_abc, f_dot_env }
    ELSE { f_abc }

DirNames == { s_tool \o s_temp }

EmptyTree == [d \in {"root"} \cup SubDirs |-> <<>>]

DirExists(t, d) ==
    d = "root" \/ \E i \in 1..Len(t["root"]) : t["root"][i] = DirEntry(d)

FilesIn(t, d) == { t[d][i].name : i \in { j \in 1..Len(t[d]) : t[d][j].kind = "file" } }

\* directory entries (files and subdirectories) in the whole tree
NumEntries(t) == Len(t["root"]) + Len(t["bin"]) + Len(t["sub"]) + Len(t["hid"])

\* Inputs of the unpacker and of install_tool

FileNamesOfAssets ==
    { s_tool \o s_tar_gz, s_tool \o s_tgz, s_tool \o s_zip, s_tool, s_tool \o s_exe,
      s_tool \o <<".","Z","I","P">>, s_tool \o <<".","t","a","r">>,
      s_tool \o s_zip \o s_tar_gz }

ArchiveContents ==
    { EmptyTree,
      [EmptyTree EXCEPT !["root"] = <<File(s_tool)>>],
      [EmptyTree EXCEPT !["root"] = <<File(f_README_md)>>],
      [EmptyTree EXCEPT !["root"] = <<DirEntry("bin")>>, !["bin"] = <<File(f_abc)>>] }

Payloads == [format : {"targz", "zip", "raw"}, content : ArchiveContents]

StaleTree == [EmptyTree EXCEPT !["root"] = <<File(f_abcdef)>>]

NotExtracted ==
    [status |-> "pending", path |-> NoPath, decoders |-> {}, chmod |-> {}, by |-> "none"]

\* what the caller of extract_archive keeps of its result, and which copy ran
Outcome(r, copy) ==
    [status |-> r.status, path |-> r.path, decoders |-> r.decoders,
     chmod |-> r.chmod, by |-> copy]

ExtractIdle ==
    /\ filename = s_tool
    /\ data = [format |-> "raw", content |-> EmptyTree]
    /\ extracted = NotExtracted

InstallIdle ==
    /\ temp_dir = "absent" /\ temp_created = FALSE
    /\ installed = FALSE /\ install_result = "running"

\* Downloader (downloader.rs)

\* Downloader::default() is Self::new(3, 120, 2)
default_max_attempts == 3
default_retry_delay_secs == 2

\* what one request of get_json can come to: send() fails, the status is
\* 404, the status is another non-success one, the body parses, or it does not
JsonOutcomes == {"send_err", "status_404", "status_err", "json_ok", "json_err"}

\* what one download_attempt can come to
AttemptOutcomes == {"send_err", "status_404", "status_err", "chunk_err", "body_ok"}

\* `attempts < self.max_attempts` taken as `<=`
retry_allowed_off_by_one(n, max) == n <= max

\* the test `attempts < self.max_attempts`, of the while loop and of every
\* failure arm
retry_allowed(n, max) == n < max

\* the match in get_json on the outcome of the request numbered n:
\* "sleep" to go round the loop again, or the value returned
get_json_arm(outcome, n, max) ==
    IF outcome = "send_err"
    THEN IF retry_allowed(n, max) THEN "sleep" ELSE "err_send"
    ELSE IF outcome = "status_404" THEN "err_not_found"
    ELSE IF outcome \in {"json_ok", "json_err"}
         THEN IF outcome = "json_ok" THEN "ok"
              ELSE IF retry_allowed(n, max) THEN "sleep" ELSE "err_parse"
    ELSE IF retry_allowed(n, max) THEN "sleep" ELSE "err_status"

\* download_attempt: Ok(buffer) only when the request was sent, the status is
\* a success and every chunk arrived
download_attempt(outcome) == IF outcome = "body_ok" THEN "Ok" ELSE "Err"

\* the match in download_file on the result of the attempt numbered n
download_file_arm(outcome, n, max) ==
    IF download_attempt(outcome) = "Ok" THEN "ok"
    ELSE IF retry_allowed(n, max) THEN "sleep" ELSE "err_download"

DownloadIdle ==
    /\ dl_method = "get_json" /\ max_attempts = 0 /\ retry_delay_secs = 0
    /\ attempts = 0 /\ requests = 0 /\ waited = 0
    /\ dl_log = <<>> /\ dl_result = "running"

NotResolved == [ok |-> FALSE, idx |-> 0, pass |-> 0, err |-> s_empty]
NotLocated == [status |-> "pending", path |-> NoPath, step |-> "none", chmod |-> {}, by |-> "none"]

ResolverIdle ==
    /\ target_os = "linux" /\ target_arch = "x86_64"
    /\ assets = <<>> /\ tool_name = s_tool /\ resolved = NotResolved

LocatorIdle ==
    /\ dir_name = s_tool \o s_temp /\ tree = EmptyTree
    /\ located = NotLocated /\ mode_set = {}

-----------------------------------------------------------------------------
\* Specification of the resolver: one call on arbitrary bounded inputs

InitResolve ==
    /\ DownloadIdle
    /\ pc = "resolve"
    /\ target_os \in TargetOs
    /\ target_arch \in TargetArch
    /\ assets \in SeqsUpTo(AssetNames, MaxAssets)
    /\ tool_name \in ToolNames
    /\ resolved = NotResolved
    /\ LocatorIdle
    /\ ExtractIdle
    /\ InstallIdle

FindAppropriateAsset ==
    /\ pc = "resolve"
    /\ resolved' = find_appropriate_asset(assets, tool_name, target_os, target_arch)
    /\ pc' = "resolved"
    /\ UNCHANGED <<download_vars, target_os, target_arch, assets, tool_name, locator_vars, extract_vars, install_vars>>

NextResolve == FindAppropriateAsset

SpecResolve == InitResolve /\ [][NextResolve]_vars

-----------------------------------------------------------------------------
\* Specification of the locator: an archive is unpacked entry by entry into
\* the fresh directory, then find_executable_recursively runs on it

InitLocate ==
    /\ DownloadIdle
    /\ pc = "unpacking"
    /\ ResolverIdle
    /\ dir_name \in DirNames
    /\ tree = EmptyTree
    /\ located = NotLocated
    /\ mode_set = {}
    /\ ExtractIdle
    /\ InstallIdle

\* the archive creates a subdirectory
UnpackDir ==
    /\ pc = "unpacking"
    /\ NumEntries(tree) < MaxEntries
    /\ \E d \in SubDirs :
        /\ ~ DirExists(tree, d)
        /\ tree' = [tree EXCEPT !["root"] = Append(@, DirEntry(d))]
    /\ UNCHANGED <<download_vars, pc, resolver_vars, dir_name, located, mode_set, extract_vars, install_vars>>

\* the archive creates a regular file
UnpackFile ==
    /\ pc = "unpacking"
    /\ NumEntries(tree) < MaxEntries
    /\ \E d \in {"root"} \cup SubDirs :
        /\ DirExists(tree, d)
        /\ \E name \in FileNames(d) \ FilesIn(tree, d) :
            tree' = [tree EXCEPT ![d] = Append(@, File(name))]
    /\ UNCHANGED <<download_vars, pc, resolver_vars, dir_name, located, mode_set, extract_vars, install_vars>>

\* unpack.rs: find_executable_recursively(dest_dir)
LocateUnpack ==
    /\ pc = "unpacking"
    /\ \E io_ok \in BOOLEAN :
        LET r == unpack_find_executable_recursively(dir_name, tree, io_ok)
        IN /\ located' = [status |-> r.status, path |-> r.path, step |-> r.step,
                          chmod |-> r.chmod, by |-> "unpack"]
           /\ mode_set' = mode_set \cup r.chmod
    /\ pc' = "located"
    /\ UNCHANGED <<download_vars, resolver_vars, dir_name, tree, extract_vars, install_vars>>

\* main.rs: find_executable_recursively(dest_dir)
LocateMain ==
    /\ pc = "unpacking"
    /\ \E io_ok \in BOOLEAN :
        LET r == main_find_executable_recursively(dir_name, tree, io_ok)
        IN /\ located' = [status |-> r.status, path |-> r.path, step |-> r.step,
                          chmod |-> r.chmod, by |-> "main"]
           /\ mode_set' = mode_set \cup r.chmod
    /\ pc' = "located"
    /\ UNCHANGED <<download_vars, resolver_vars, dir_name, tree, extract_vars, install_vars>>

NextLocate == UnpackDir \/ UnpackFile \/ LocateUnpack \/ LocateMain

SpecLocate == InitLocate /\ [][NextLocate]_vars

-----------------------------------------------------------------------------
\* Specification of the unpacker: one call of extract_archive on a fresh
\* destination directory

InitExtract ==
    /\ DownloadIdle
    /\ pc = "extract"
    /\ ResolverIdle
    /\ LocatorIdle
    /\ filename \in FileNamesOfAssets
    /\ data \in Payloads
    /\ extracted = NotExtracted
    /\ InstallIdle

ExtractStep(main_copy) ==
    /\ \E io_ok \in BOOLEAN :
        LET r == extract_archive(main_copy, data, filename, tree, dir_name, io_ok)
        IN /\ extracted' = Outcome(r, IF main_copy THEN "main" ELSE "unpack")
           /\ tree' = r.tree
           /\ mode_set' = mode_set \cup r.chmod
    /\ pc' = "extract_returned"
    /\ UNCHANGED <<download_vars, resolver_vars, dir_name, located, filename, data, install_vars>>

\* main.rs: extract_archive
ExtractArchiveMain ==
    /\ pc = "extract"
    /\ ExtractStep(TRUE)

\* unpack.rs: extract_archive
ExtractArchiveUnpack ==
    /\ pc = "extract"
    /\ ExtractStep(FALSE)

NextExtract == ExtractArchiveMain \/ ExtractArchiveUnpack

SpecExtract == InitExtract /\ [][NextExtract]_vars

-----------------------------------------------------------------------------
\* Specification of install_tool from the point where the asset has been
\* downloaded (main.rs 382-433).  Every fallible call either succeeds or makes
\* install_tool return the error at once (the ? operator).

InitInstall ==
    /\ DownloadIdle
    /\ pc = "install"
    /\ ResolverIdle
    /\ dir_name = s_tool \o s_temp
    /\ temp_dir \in {"absent", "stale"}
    /\ tree = IF temp_dir = "stale" THEN StaleTree ELSE EmptyTree
    /\ located = NotLocated /\ mode_set = {}
    /\ filename \in FileNamesOfAssets
    /\ data \in Payloads
    /\ extracted = NotExtracted
    /\ temp_created = FALSE /\ installed = FALSE /\ install_result = "running"

Return(result) ==
    /\ pc' = "returned"
    /\ install_result' = result

\* if temp_dir.exists() { remove_dir_all(&temp_dir)? }  create_dir_all(&temp_dir)?
InstallCreateTemp ==
    /\ pc = "install"
    /\ \E rm_ok \in BOOLEAN, mk_ok \in BOOLEAN :
        IF temp_dir # "absent" /\ ~ rm_ok
        THEN /\ Return("err_remove_stale")
             /\ UNCHANGED <<temp_dir, tree, temp_created>>
        ELSE IF ~ mk_ok
        THEN /\ Return("err_create_temp")
             /\ temp_dir' = "absent" /\ tree' = EmptyTree
             /\ UNCHANGED temp_created
        ELSE /\ pc' = "temp_ready"
             /\ temp_dir' = "fresh" /\ tree' = EmptyTree /\ temp_created' = TRUE
             /\ UNCHANGED install_result
    /\ UNCHANGED <<download_vars, resolver_vars, dir_name, located, mode_set, extract_vars, installed>>

\* the archive branch up to the match on extracted_path
InstallExtract ==
    /\ pc = "temp_ready"
    /\ is_archive_name(filename)
    /\ \E io_ok \in BOOLEAN :
        LET r == extract_archive(TRUE, data, filename, tree, dir_name, io_ok)
        IN /\ extracted' = Outcome(r, "main")
           /\ tree' = r.tree
           /\ mode_set' = mode_set \cup r.chmod
           /\ IF r.status = "err" THEN Return("err_extract")
              ELSE IF r.status = "none" THEN Return("err_no_executable")
              ELSE pc' = "found" /\ UNCHANGED install_result
    /\ UNCHANGED <<download_vars, resolver_vars, dir_name, located, filename, data,
                   temp_dir, temp_created, installed>>

\* fs::copy(path, &dest_path)?
InstallCopy ==
    /\ pc = "found"
    /\ \E copy_ok \in BOOLEAN :
        IF copy_ok
        THEN pc' = "placed" /\ installed' = TRUE /\ UNCHANGED install_result
        ELSE Return("err_copy") /\ UNCHANGED installed
    /\ UNCHANGED <<download_vars, resolver_vars, locator_vars, extract_vars, temp_dir, temp_created>>

\* the direct-binary branch: File::create?, io::copy?, set_permissions?
InstallDirect ==
    /\ pc = "temp_ready"
    /\ ~ is_archive_name(filename)
    /\ \E create_ok \in BOOLEAN, write_ok \in BOOLEAN, chmod_ok \in BOOLEAN :
        IF ~ create_ok
        THEN Return("err_write") /\ UNCHANGED installed
        ELSE IF ~ write_ok \/ ~ chmod_ok
        THEN Return("err_write") /\ installed' = TRUE
        ELSE pc' = "placed" /\ installed' = TRUE /\ UNCHANGED install_result
    /\ UNCHANGED <<download_vars, resolver_vars, locator_vars, extract_vars, temp_dir, temp_created>>

\* fs::remove_dir_all(temp_dir)?  Ok(())
InstallCleanup ==
    /\ pc = "placed"
    /\ \E rm_ok \in BOOLEAN :
        IF rm_ok
        THEN Return("ok") /\ temp_dir' = "absent" /\ tree' = EmptyTree
        ELSE Return("err_cleanup") /\ UNCHANGED <<temp_dir, tree>>
    /\ UNCHANGED <<download_vars, resolver_vars, dir_name, located, mode_set, extract_vars,
                   temp_created, installed>>

NextInstall ==
    InstallCreateTemp \/ InstallExtract \/ InstallCopy \/ InstallDirect \/ InstallCleanup

SpecInstall == InitInstall /\ [][NextInstall]_vars

-----------------------------------------------------------------------------
\* Specification of the Downloader: one call of get_json or download_file,
\* each request ending in one of its outcomes

InitDownload ==
    /\ pc = "dl_loop"
    /\ ResolverIdle /\ LocatorIdle /\ ExtractIdle /\ InstallIdle
    /\ dl_method \in {"get_json", "download_file"}
    /\ max_attempts \in 0..MaxAttempts
    /\ retry_delay_secs \in {0, default_retry_delay_secs}
    /\ attempts = 0 /\ requests = 0 /\ waited = 0
    /\ dl_log = <<>>
    /\ dl_result = "running"

\* one round of the while loop, up to the sleep or the return
Attempt(outcome, arm) ==
    /\ attempts' = attempts + 1
    /\ requests' = requests + 1
    /\ dl_log' = Append(dl_log, outcome)
    /\ IF arm = "sleep"
       THEN pc' = "dl_sleep" /\ UNCHANGED dl_result
       ELSE pc' = "dl_done" /\ dl_result' = arm
    /\ UNCHANGED <<resolver_vars, locator_vars, extract_vars, install_vars,
                   dl_method, max_attempts, retry_delay_secs, waited>>

GetJsonAttempt ==
    /\ pc = "dl_loop" /\ dl_method = "get_json"
    /\ retry_allowed(attempts, max_attempts)
    /\ \E outcome \in JsonOutcomes :
        Attempt(outcome, get_json_arm(outcome, attempts + 1, max_attempts))

DownloadFileAttempt ==
    /\ pc = "dl_loop" /\ dl_method = "download_file"
    /\ retry_allowed(attempts, max_attempts)
    /\ \E outcome \in AttemptOutcomes :
        Attempt(outcome, download_file_arm(outcome, attempts + 1, max_attempts))

\* tokio::time::sleep(Duration::from_secs(self.retry_delay_secs)).await
Sleep ==
    /\ pc = "dl_sleep"
    /\ waited' = waited + retry_delay_secs
    /\ dl_log' = Append(dl_log, "sleep")
    /\ pc' = "dl_loop"
    /\ UNCHANGED <<resolver_vars, locator_vars, extract_vars, install_vars,
                   dl_method, max_attempts, retry_delay_secs, attempts, requests,
                   dl_result>>

\* the while condition is false: the Err after the loop
LoopExit ==
    /\ pc = "dl_loop"
    /\ ~ retry_allowed(attempts, max_attempts)
    /\ pc' = "dl_done"
    /\ dl_result' = "err_after_loop"
    /\ UNCHANGED <<resolver_vars, locator_vars, extract_vars, install_vars,
                   dl_method, max_attempts, retry_delay_secs, attempts, requests,
                   waited, dl_log>>

NextDownload == GetJsonAttempt \/ DownloadFileAttempt \/ Sleep \/ LoopExit

\* every request ends (the client is built with a timeout) and every sleep
\* ends, so the call keeps taking steps while it can
SpecDownload == InitDownload /\ [][NextDownload]_vars /\ WF_vars(NextDownload)

-----------------------------------------------------------------------------
\* Properties of the resolver

a_linux_x86_64_tgz == s_tool \o s_dash \o s_linux \o s_dash \o s_x86_64 \o s_tar_gz
a_linux_amd64_tgz == s_tool \o s_dash \o s_linux \o s_dash \o s_amd64 \o s_tar_gz
a_windows_exe == s_tool \o s_dash \o s_windows \o s_dash \o s_x86_64 \o s_exe

CurOs == get_platform_info(target_os, target_arch)[1]
CurArch == get_platform_info(target_os, target_arch)[2]
CurPatterns == search_patterns(CurOs, CurArch)
CurExtensions == extensions(CurOs)

LowerNames == [k \in 1..Len(assets) |-> to_lowercase(assets[k])]

\* the assets that match some pattern and some permitted extension
PlatformMatches ==
    LET pats == CurPatterns
        exts == CurExtensions
        names == LowerNames
    IN { k \in 1..Len(assets) :
           /\ \E p \in 1..Len(pats) : contains(names[k], pats[p])
           /\ \E e \in 1..Len(exts) : ends_with(names[k], exts[e]) }

PlatformMatch(k) == k \in PlatformMatches

\* asset k contains the lowercased tool name
HasTool(k) == contains(to_lowercase(assets[k]), to_lowercase(tool_name))

\* C1: tool-name precedence. If some asset contains the tool name, a search
\* pattern and a permitted extension, the returned asset contains the tool
\* name, wherever a platform-only match stands in the list; the platform-only
\* pass decides only when no asset passes the tool-aware test.
C1_ToolNamePrecedence ==
    pc = "resolved" =>
        LET eligible == { k \in PlatformMatches : HasTool(k) }
        IN /\ eligible # {}
                 => (resolved.ok /\ resolved.pass = 1 /\ HasTool(resolved.idx))
           /\ resolved.pass = 2 => eligible = {}

\* a platform-only match stands first in the list and the tool-named asset
\* behind it is returned
C1_Witness ==
    /\ pc = "resolved"
    /\ Len(assets) = 2
    /\ ~ HasTool(1) /\ PlatformMatch(1)
    /\ resolved.ok /\ resolved.idx = 2 /\ HasTool(2)

\* the triples (pattern index, extension index, asset position) that satisfy
\* the test of the pass that returned
MatchingTriples ==
    LET pats == CurPatterns
        exts == CurExtensions
        names == LowerNames
        tool_lower == to_lowercase(tool_name)
    IN { t \in (1..Len(pats)) \X (1..Len(exts)) \X (1..Len(assets)) :
           loop_hit(names[t[3]], tool_lower, pats[t[1]], exts[t[2]], resolved.pass = 1) }

LexLeq(t, u) ==
    \/ t[1] < u[1]
    \/ t[1] = u[1] /\ t[2] < u[2]
    \/ t[1] = u[1] /\ t[2] = u[2] /\ t[3] <= u[3]

\* C2: first-match ordering. The returned asset is the one of the
\* lexicographically smallest matching (pattern, extension, position) triple;
\* on linux/x86_64 the x86_64 asset wins over the amd64 asset in either order.
C2_FirstMatchOrdering ==
    (pc = "resolved" /\ resolved.ok) =>
        /\ LET M == MatchingTriples
           IN \E t \in M :
                /\ t[3] = resolved.idx
                /\ \A u \in M : LexLeq(t, u)
        /\ ( /\ target_os = "linux" /\ target_arch = "x86_64"
             /\ assets \in { <<a_linux_x86_64_tgz, a_linux_amd64_tgz>>,
                              <<a_linux_amd64_tgz, a_linux_x86_64_tgz>> } )
              => assets[resolved.idx] = a_linux_x86_64_tgz

\* the amd64 asset stands first and the x86_64 asset is returned
C2_Witness ==
    /\ pc = "resolved"
    /\ target_os = "linux" /\ target_arch = "x86_64"
    /\ assets = <<a_linux_amd64_tgz, a_linux_x86_64_tgz>>
    /\ resolved.ok /\ resolved.idx = 2

\* C3: no-match failure. The call fails exactly when no asset contains a
\* pattern and ends with a permitted extension; the error names the
\* canonical os-arch (linux-arm64 for the single asset tool-windows-x86_64.exe
\* on linux/arm64); otherwise one member of the list is returned.
C3_NoMatchFailure ==
    pc = "resolved" =>
        /\ (~ resolved.ok) <=> (PlatformMatches = {})
        /\ (~ resolved.ok) => resolved.err = CurOs \o s_dash \o CurArch
        /\ ( /\ target_os = "linux" /\ target_arch = "aarch64"
             /\ assets = <<a_windows_exe>> )
              => ( /\ ~ resolved.ok
                   /\ resolved.err = s_linux \o s_dash \o s_arm64 )
        /\ resolved.ok => resolved.idx \in 1..Len(assets)

\* the windows asset alone on linux/arm64: the call has failed
C3_Witness ==
    /\ pc = "resolved"
    /\ target_os = "linux" /\ target_arch = "aarch64"
    /\ assets = <<a_windows_exe>>
    /\ ~ resolved.ok

\* the pattern list find_appropriate_asset built for the running platform
PatternSet == LET pats == CurPatterns IN { pats[i] : i \in 1..Len(pats) }

OsSynonyms == LET v == os_variations(CurOs) IN { v[i] : i \in 1..Len(v) }
ArchSynonyms == LET v == arch_variations(CurArch) IN { v[i] : i \in 1..Len(v) }

\* C12: search-pattern generation. For every (OS synonym, architecture
\* synonym) pair the pattern list holds os-arch, os_arch, osarch and arch-os,
\* and for every OS synonym it holds the bare synonym.
C12_PatternGeneration ==
    pc = "resolved" =>
        /\ \A o \in OsSynonyms : \A a \in ArchSynonyms :
              { o \o s_dash \o a, o \o s_under \o a, o \o a, a \o s_dash \o o }
                  \subseteq PatternSet
        /\ OsSynonyms \subseteq PatternSet

\* C12 as the code has it: three joined forms per pair and the bare synonym,
\* and nothing else, so arch-os is in the list only where it coincides with
\* another form (unknown-unknown)
C12_ThreeJoinedForms ==
    pc = "resolved" =>
        PatternSet = OsSynonyms \cup
            UNION { { o \o s_dash \o a, o \o s_under \o a, o \o a } :
                    o \in OsSynonyms, a \in ArchSynonyms }

s_apple_darwin == <<"a","p","p","l","e">> \o s_dash \o s_darwin
s_unknown_linux == s_unknown \o s_dash \o s_linux
s_pc_windows == <<"p","c">> \o s_dash \o s_windows

\* C13: OS synonym sets. darwin has at least darwin, macos, mac, osx and
\* apple-darwin; linux has exactly linux and unknown-linux; windows exactly
\* windows and pc-windows; an unknown OS exactly its canonical token.
C13_OsSynonyms ==
    pc = "resolved" =>
        /\ CurOs = s_darwin =>
              {s_darwin, s_macos, s_mac, s_osx, s_apple_darwin} \subseteq OsSynonyms
        /\ CurOs = s_linux => OsSynonyms = {s_linux, s_unknown_linux}
        /\ CurOs = s_windows => OsSynonyms = {s_windows, s_pc_windows}
        /\ CurOs = s_unknown => OsSynonyms = {s_unknown}

\* C13 as the code has it: four synonyms for darwin, the canonical token
\* alone for every other OS
C13_OsSynonymsOfCode ==
    pc = "resolved" =>
        OsSynonyms = IF CurOs = s_darwin THEN {s_darwin, s_macos, s_mac, s_osx}
                     ELSE {CurOs}

\* the asset has no extension: no "." in its lowercased name
Extensionless(name) == \A i \in 1..Len(name) : name[i] # "."

\* C15: extension filter. The lowercased name of every returned asset ends in
\* .exe, .zip, .tar.gz or .tgz on Windows, and on every other OS is
\* extensionless or ends in .tar.gz, .tgz or .zip; tool-linux-amd64.deb is
\* never selected.
C15_ExtensionFilter ==
    (pc = "resolved" /\ resolved.ok) =>
        LET name == to_lowercase(assets[resolved.idx])
            archive == \E e \in {s_tar_gz, s_tgz, s_zip} : ends_with(name, e)
        IN /\ CurOs = s_windows => (archive \/ ends_with(name, s_exe))
           /\ CurOs # s_windows => (archive \/ Extensionless(name))
           /\ assets[resolved.idx] # s_tool \o s_dash \o s_linux \o s_dash \o s_amd64 \o s_deb

\* C15 as the code has it: the filter is effective on Windows only, where the
\* extension list has no empty string
C15_ExtensionFilterOnWindows ==
    (pc = "resolved" /\ resolved.ok /\ CurOs = s_windows) =>
        \E e \in {s_exe, s_zip, s_tar_gz, s_tgz} :
            ends_with(to_lowercase(assets[resolved.idx]), e)

\* on Windows the filter decides: the .deb is listed first and passed over
C15_WitnessOnWindows ==
    /\ pc = "resolved" /\ resolved.ok /\ CurOs = s_windows
    /\ Len(assets) = 2
    /\ assets[1] = s_tool \o s_dash \o s_linux \o s_dash \o s_amd64 \o s_deb
    /\ resolved.idx = 2

\* the joined OS+architecture patterns of the running platform
JoinedPatterns ==
    UNION { { o \o s_dash \o a, o \o s_under \o a, o \o a } :
            o \in OsSynonyms, a \in ArchSynonyms }

a_darwin_x86_64 == s_tool \o s_dash \o s_darwin \o s_dash \o s_x86_64
a_macos_arm64 == s_tool \o s_dash \o s_macos \o s_dash \o s_arm64

\* C16: architecture preference. When some asset's lowercased name contains
\* a joined OS+architecture pattern of the running platform, the returned
\* asset contains an architecture synonym of the platform; on darwin/arm64
\* with tool-darwin-x86_64 and tool-macos-arm64 the result is
\* tool-macos-arm64.
C16_ArchitecturePreference ==
    pc = "resolved" =>
        LET names == LowerNames
            joined == JoinedPatterns
            archs == ArchSynonyms
        IN /\ (\E k \in 1..Len(assets) : \E p \in joined : contains(names[k], p))
                => /\ resolved.ok
                   /\ \E a \in archs : contains(names[resolved.idx], a)
           /\ ( /\ CurOs = s_darwin /\ CurArch = s_arm64
                /\ assets = <<a_darwin_x86_64, a_macos_arm64>> )
                => (resolved.ok /\ assets[resolved.idx] = a_macos_arm64)

\* C16 as the code has it: the preference holds among the patterns of one OS
\* synonym only, so it holds on every OS with a single synonym once the tool
\* name does not split the two passes
C16_ArchitecturePreferenceSingleSynonym ==
    ( /\ pc = "resolved" /\ CurOs # s_darwin
      /\ \A k \in 1..Len(assets) : HasTool(k) ) =>
        LET names == LowerNames
            joined == JoinedPatterns
            archs == ArchSynonyms
        IN (\E k \in 1..Len(assets) : \E p \in joined : contains(names[k], p))
                => /\ resolved.ok
                   /\ \E a \in archs : contains(names[resolved.idx], a)

-----------------------------------------------------------------------------
\* Properties of the locator

\* the tool's expected name: the directory name without its _temp suffix
ExpectedName == SubSeq(dir_name, 1, Len(dir_name) - 5)

HasPrefix(name, prefix) ==
    Len(prefix) <= Len(name) /\ SubSeq(name, 1, Len(prefix)) = prefix

HasInfix(name, infix) ==
    \E i \in 1..(Len(name) - Len(infix) + 1) : SubSeq(name, i, i + Len(infix) - 1) = infix

\* regular files directly inside bin/
BinFiles == IF DirExists(tree, "bin") THEN FilesIn(tree, "bin") ELSE {}

\* the candidate set of the recursive scan
Candidates ==
    LET c == search_directory(tree, "root", 1) IN { c[i] : i \in 1..Len(c) }

Returned == pc = "located" /\ located.status = "some"

\* C4: bin priority. When bin/ holds a regular file, the returned path is a
\* file directly inside bin/, whatever else the tree holds and whatever the
\* listing order; with bin/tool and a top-level tool-v2 it is bin/tool.
C4_BinPriority ==
    (pc = "located" /\ BinFiles # {} /\ located.status # "err") =>
        /\ located.status = "some"
        /\ located.path[1] = "bin" /\ located.path[2] \in BinFiles
        /\ (BinFiles = {s_tool} /\ f_tool_v2 \in FilesIn(tree, "root"))
              => located.path = <<"bin", s_tool>>

\* tool-v2 is listed at the top level before bin/, and bin/tool is returned
C4_Witness ==
    /\ Returned
    /\ tree["root"] = <<File(f_tool_v2), DirEntry("bin")>>
    /\ tree["bin"] = <<File(s_tool)>>
    /\ located.path = <<"bin", s_tool>>

\* C5: named-bin match. When bin/ holds a file named as, or prefixed by, the
\* expected tool name, such a file is returned for every listing order, and
\* the bin fallback applies only when bin/ holds no such file.
C5_NamedBinMatch ==
    (Returned /\ \E f \in BinFiles : HasPrefix(f, ExpectedName))
        => (located.path[1] = "bin" /\ HasPrefix(located.path[2], ExpectedName))

\* C5 for the copy in unpack.rs alone, which strips the _temp suffix
C5_NamedBinMatch_UnpackCopy ==
    located.by = "unpack" => C5_NamedBinMatch

\* bin/ lists another file before the tool and the tool is returned
C5_Witness_UnpackCopy ==
    /\ Returned /\ located.by = "unpack"
    /\ tree["bin"] = <<File(f_abc), File(s_tool)>>
    /\ located.path = <<"bin", s_tool>>

\* a documentation or hidden file name
IsDocName(name) ==
    \/ HasPrefix(name, <<".">>)
    \/ HasPrefix(name, <<"L","I","C","E","N","S","E">>)
    \/ HasPrefix(name, <<"R","E","A","D","M","E">>)
    \/ HasInfix(name, <<".","m","d">>)
    \/ HasInfix(name, <<".","t","x","t">>)

\* C6: documentation exclusion. No documentation or hidden file is a
\* candidate, so none is returned by the exact-name short-circuit or the
\* ranking fallback; a directory holding only README.md, LICENSE and mytool
\* yields mytool.
C6_DocumentationExclusion ==
    /\ \A c \in Candidates : ~ IsDocName(c[2])
    /\ (Returned /\ located.step \in {"exact", "ranking"})
          => ~ IsDocName(located.path[2])
    /\ ( /\ pc = "located" /\ located.status # "err"
         /\ Len(tree["root"]) = 3
         /\ FilesIn(tree, "root") = {f_README_md, s_LICENSE, f_mytool} )
          => (located.status = "some" /\ located.path = <<"root", f_mytool>>)

\* README.md and LICENSE are listed before mytool, and mytool is returned
C6_Witness ==
    /\ Returned
    /\ tree["root"] = <<File(f_README_md), File(s_LICENSE), File(f_mytool)>>
    /\ located.path = <<"root", f_mytool>>

HasExt(name) == \E i \in 1..Len(name) : name[i] = "."

\* candidate c ranks strictly ahead of candidate r
RanksAhead(c, r) ==
    \/ ~ HasExt(c[2]) /\ HasExt(r[2])
    \/ HasExt(c[2]) = HasExt(r[2]) /\ Len(c[2]) < Len(r[2])

\* the name the directory-name step of the copy that ran looks for at the top
\* level: main.rs 248 joins dir_name itself, unpack.rs 68 the stripped name
DirNameStepTarget == IF located.by = "main" THEN dir_name ELSE ExpectedName

\* no bin/ file, no directory-name match, no candidate named as the tool
RankingCase ==
    /\ pc = "located" /\ located.status # "err"
    /\ BinFiles = {}
    /\ DirNameStepTarget \notin FilesIn(tree, "root")
    /\ \A c \in Candidates : c[2] # ExpectedName

\* C7: ranking fallback. In the ranking case the returned path is a candidate
\* that no other candidate ranks ahead of (extensionless first, then shorter
\* name: abc before abcdef), and the result is None exactly when there is no
\* candidate.
C7_RankingFallback ==
    RankingCase =>
        /\ located.status = "none" <=> Candidates = {}
        /\ located.status = "some" =>
              /\ located.path \in Candidates
              /\ \A c \in Candidates : ~ RanksAhead(c, located.path)
        /\ ({ c[2] : c \in Candidates } = {f_abc, f_abcdef})
              => located.path[2] = f_abc

\* abcdef is listed before abc, notes.txt is left out, abc is returned
C7_Witness ==
    /\ Returned /\ RankingCase
    /\ tree["root"] = <<File(f_abcdef), File(f_notes_txt), File(f_abc)>>
    /\ located.path = <<"root", f_abc>>

\* C8: exact-name short-circuit. When the scan is reached (no bin/ file, no
\* top-level file named as the tool) and a candidate at any depth is named
\* exactly as the tool, that file is returned even if another candidate
\* ranks ahead of it.
C8_ExactNameShortCircuit ==
    ( /\ Returned
      /\ BinFiles = {}
      /\ ExpectedName \notin FilesIn(tree, "root")
      /\ \E c \in Candidates : c[2] = ExpectedName )
        => located.path[2] = ExpectedName

\* C8 for the copy in unpack.rs alone, which has the short-circuit
C8_ExactNameShortCircuit_UnpackCopy ==
    located.by = "unpack" => C8_ExactNameShortCircuit

\* abc ranks ahead of the nested tool, and the nested tool is returned
C8_Witness_UnpackCopy ==
    /\ Returned /\ located.by = "unpack"
    /\ tree["root"] = <<File(f_abc), DirEntry("sub")>>
    /\ tree["sub"] = <<File(s_tool)>>
    /\ located.path = <<"sub", s_tool>>
    /\ located.step = "exact"

\* C11: executable bit after locate. Whenever the locator returns a path, by
\* whichever step, that file and no other has had its mode set to 0o755; when
\* it returns None or an error no mode has been changed, and an error carries
\* no path, so a failure to set the mode never yields a path.
C11_ExecutableBit ==
    pc = "located" =>
        /\ located.status = "some" =>
              (located.path # NoPath /\ mode_set = {located.path})
        /\ located.status # "some" =>
              (located.path = NoPath /\ mode_set = {})

\* the compiled copy returns abc by the ranking fallback, abc alone made
\* executable although another candidate and a documentation file are present
C11_Witness ==
    /\ Returned /\ located.by = "main" /\ located.step = "ranking"
    /\ tree["root"] = <<File(f_abcdef), File(f_README_md), File(f_abc)>>
    /\ mode_set = {<<"root", f_abc>>}

\* set_permissions fails on the file the named-bin step chose
C11_WitnessError ==
    /\ pc = "located" /\ located.status = "err" /\ located.step = "named_bin"
    /\ BinFiles # {} /\ mode_set = {}

-----------------------------------------------------------------------------
\* Properties of install_tool and of the unpacker

\* C9: temporary-directory release. Whenever install_tool returns after it
\* has created the temporary directory (success, extraction error, no
\* executable found, copy or write failure), the directory no longer exists.
C9_TempDirReleased ==
    ( /\ pc = "returned"
      /\ temp_created
      /\ install_result \in {"ok", "err_extract", "err_no_executable",
                             "err_copy", "err_write"} )
        => temp_dir = "absent"

\* C9 as the code has it: the directory is removed on the success path, and
\* only there
C9_TempDirReleasedOnSuccessOnly ==
    (pc = "returned" /\ temp_created)
        => (temp_dir = "absent" <=> install_result = "ok")

NameEndsWith(name, suffix) ==
    Len(suffix) <= Len(name)
      /\ SubSeq(name, Len(name) - Len(suffix) + 1, Len(name)) = suffix

TarGzName ==
    \/ NameEndsWith(filename, <<".","t","a","r",".","g","z">>)
    \/ NameEndsWith(filename, <<".","t","g","z">>)

ZipName == NameEndsWith(filename, <<".","z","i","p">>)

\* C10: archive format dispatch. The branch depends on the file name suffix
\* alone: .tar.gz/.tgz is decoded only as gzip+tar, .zip only as zip, any
\* other name decodes nothing, writes nothing and returns None; a payload the
\* chosen decoder cannot read yields an error, not None.
C10_FormatDispatch ==
    pc = "extract_returned" =>
        /\ TarGzName => extracted.decoders = {"gzip_tar"}
        /\ (~ TarGzName /\ ZipName) => extracted.decoders = {"zip"}
        /\ (~ TarGzName /\ ~ ZipName) =>
              /\ extracted.decoders = {}
              /\ extracted.status = "none"
              /\ tree = EmptyTree /\ mode_set = {}
        /\ (TarGzName /\ data.format # "targz") => extracted.status = "err"
        /\ (~ TarGzName /\ ZipName /\ data.format # "zip") => extracted.status = "err"

\* a .zip name with a zip payload: only the zip decoder ran and the
\* executable was found
C10_Witness ==
    /\ pc = "extract_returned"
    /\ filename = s_tool \o s_zip
    /\ data.format = "zip"
    /\ extracted.decoders = {"zip"}
    /\ extracted.status = "some"

\* a gzip+tar payload under a name that is no archive name: nothing decoded
C10_WitnessNoArchive ==
    /\ pc = "extract_returned"
    /\ filename = s_tool
    /\ data.format = "targz"
    /\ extracted.status = "none"

-----------------------------------------------------------------------------
\* Properties of the Downloader

Sleeps == { i \in 1..Len(dl_log) : dl_log[i] = "sleep" }
Requests == { i \in 1..Len(dl_log) : dl_log[i] # "sleep" }

IsSuccess(outcome) == outcome \in {"json_ok", "body_ok"}

\* a 404 answer to get_json; download_file treats a 404 as any failed attempt
IsNotFound(i) == dl_method = "get_json" /\ dl_log[i] = "status_404"

C17_Safety ==
    \* at most max_attempts requests, one per round of the loop
    /\ requests <= max_attempts
    /\ Cardinality(Requests) = requests
    \* a success or a get_json 404 is the last thing that happens
    /\ \A i \in Requests :
          (IsSuccess(dl_log[i]) \/ IsNotFound(i)) => (i = Len(dl_log) /\ pc = "dl_done")
    \* a sleep comes right after a failed request and, once over, with a
    \* request still to come: never first, never twice, never after the last
    /\ \A i \in Sleeps : i > 1 /\ (i - 1) \in Requests
    /\ (pc = "dl_loop" /\ dl_log # <<>>) => requests < max_attempts
    /\ pc = "dl_sleep" => requests < max_attempts
    /\ waited = retry_delay_secs * Cardinality(Sleeps)
    /\ pc = "dl_done" =>
          /\ dl_result # "running"
          /\ dl_log # <<>> => dl_log[Len(dl_log)] # "sleep"
          /\ Cardinality(Sleeps) = IF requests = 0 THEN 0 ELSE requests - 1
          /\ dl_result = "ok" <=> (dl_log # <<>> /\ IsSuccess(dl_log[Len(dl_log)]))
          /\ dl_result = "err_not_found" <=> (dl_log # <<>> /\ IsNotFound(Len(dl_log)))
          \* every other return is an error after the max_attempts-th failure
          /\ dl_result \notin {"ok", "err_not_found"} => requests = max_attempts
    /\ pc # "dl_done" => dl_result = "running"

\* C17: bounded retry. Whatever the requests come to, get_json and
\* download_file send at most max_attempts requests and then return; the
\* first success returns the payload and ends the call; the delay is slept
\* only between two requests; the max_attempts-th failure returns an error;
\* a 404 answer to get_json returns an error at once.
C17_BoundedRetry == [] C17_Safety /\ <>(pc = "dl_done")

\* get_json with the default three attempts: a send failure, a sleep, a 500,
\* a sleep, then an unparsable body, which is returned as an error unslept
C17_Witness ==
    /\ pc = "dl_done" /\ dl_method = "get_json"
    /\ max_attempts = default_max_attempts
    /\ retry_delay_secs = default_retry_delay_secs
    /\ dl_log = <<"send_err", "sleep", "status_err", "sleep", "json_err">>
    /\ dl_result = "err_parse"
    /\ waited = 4

\* download_file retries a 404 and succeeds at the second request
C17_WitnessDownloadFile ==
    /\ pc = "dl_done" /\ dl_method = "download_file"
    /\ dl_log = <<"status_404", "sleep", "body_ok">>
    /\ dl_result = "ok" /\ requests = 2 /\ max_attempts = default_max_attempts

\* get_json gives up on a 404 at the first request
C17_WitnessNotFound ==
    /\ pc = "dl_done" /\ dl_method = "get_json"
    /\ dl_log = <<"status_404">>
    /\ dl_result = "err_not_found" /\ max_attempts = default_max_attempts

====
